---- MODULE Spec2Model ----
(***************************************************************************)
(* Control loop of cobyqa.minimize (src/cobyqa/main.py) together with the  *)
(* initial sampling of Models.__init__ (src/cobyqa/models.py).             *)
(*                                                                         *)
(* Lengths (radius, resolution, step norms, distances) are integers in a   *)
(* fixed unit; reduction ratios are in hundredths; constraint violations   *)
(* are integers in the unit of the tolerance they are compared with.       *)
(* The trust-region framework, the problem adapter and the filter are not  *)
(* part of the source tree: their results are inputs of the actions that   *)
(* call them, drawn from small sets that straddle every threshold the      *)
(* control loop compares them with.                                        *)
(*                                                                         *)
(* The specifications share the variables:                                 *)
(*   Spec, FairSpec  the run of minimize from accepted options on;         *)
(*   OptionsSpec     _set_default_options on the caller's dictionary, then *)
(*                   the run up to the start of the main loop;             *)
(*   LookupSpec      the resolution of the option names, Options.<NAME>    *)
(*                   and DEFAULT_OPTIONS[...], with settings.py as it is;  *)
(*   ModelsSpec      the interpolation set and the models under            *)
(*                   update_interpolation and shift_x_base;                *)
(*   ShiftSpec       the coefficients of a quadratic model under           *)
(*                   shift_x_base;                                         *)
(*   LoopSpec        longer runs of the main loop on one problem, with the *)
(*                   answers of the framework recorded in trace;           *)
(*   InterpSpec      Interpolation.__init__ on every input.                *)
(*                                                                         *)
(* Except in LookupSpec, option names are taken with the meaning main.py   *)
(* gives them (the keys listed in the docstring of minimize); Init ranges  *)
(* over configurations that _set_default_options and Quadratic.__init__    *)
(* accept, OptionsInit over accepted and rejected ones.                    *)
(***************************************************************************)
EXTENDS Integers, Sequences, FiniteSets, TLC

\* ---------------------------------------------------------------- bounds
MaxNOrig == 1
MaxEvalBound == 3
MaxIterBound == 2
MaxM == 3
MaxXAbs == 2
MaxDim == 2
MaxInterpDim == 3
MaxLoopIter == 5
MaxLoopEval == 3

\* ------------------------------------------------------------ exit status
RADIUS_SUCCESS == 0
TARGET_SUCCESS == 1
FIXED_SUCCESS == 2
MAX_EVAL_WARNING == 3
MAX_ITER_WARNING == 4
INFEASIBLE_ERROR == -1

ExitStatus ==
  {RADIUS_SUCCESS, TARGET_SUCCESS, FIXED_SUCCESS, MAX_EVAL_WARNING,
   MAX_ITER_WARNING, INFEASIBLE_ERROR}

\* ------------------------------------------------------------- sentinels
None == -2
Inf == 1000000000
NegInf == -1000000000

\* ----------------------------------------------------------- input sets
Width == 20
XlVals == {NegInf, 0, Width}
XuVals == {0, Width, Inf}
RadiusInitVals == {100}
RadiusFinalVals == {1, 100}
TargetVals == {0}
FunVals == {-1, 0, 1}
TolBounds == 1
FeasibilityTol == 2

Max2(a, b) == IF a >= b THEN a ELSE b
Min2(a, b) == IF a <= b THEN a ELSE b

RECURSIVE MaxOfSeq(_)
MaxOfSeq(s) == IF Len(s) = 0 THEN 0 ELSE Max2(Head(s), MaxOfSeq(Tail(s)))

RECURSIVE MinOfSet(_)
MinOfSet(S) ==
  IF S = {} THEN Inf
  ELSE LET x == CHOOSE y \in S : TRUE IN Min2(x, MinOfSet(S \ {x}))

\* -------------------------------------------------------------- problem
\* BoundConstraints.is_feasible: no coordinate has xl > xu.
is_feasible(xl, xu) == \A i \in DOMAIN xl : xl[i] <= xu[i]

\* Problem.__init__ removes the variables fixed by the bounds (xl = xu).
FreeIdx(xl, xu) == {i \in DOMAIN xl : xl[i] # xu[i]}

\* xu - xl on one coordinate, infinite when a bound is infinite.
BoundWidth(l, u) == IF l = NegInf \/ u = Inf THEN Inf ELSE u - l

\* 0.5 * min(xu - xl) over the reduced problem, Interpolation.__init__.
max_radius(xl, xu) ==
  LET w == MinOfSet({BoundWidth(xl[i], xu[i]) : i \in FreeIdx(xl, xu)})
  IN IF w = Inf THEN Inf ELSE w \div 2

Problem(xl, xu, mlub, mleq, mnub, mneq) ==
  [n |-> Cardinality(FreeIdx(xl, xu)),
   is_feasible |-> is_feasible(xl, xu),
   max_radius |-> max_radius(xl, xu),
   m_linear_ub |-> mlub, m_linear_eq |-> mleq,
   m_nonlinear_ub |-> mnub, m_nonlinear_eq |-> mneq]

\* Numbers of linear and nonlinear, inequality and equality constraints.
ConstraintShapes ==
  {<<0, MaxM, 0, 0>>, <<1, 0, 0, MaxM>>}

Bounds ==
  UNION {[1..k -> XlVals] \X [1..k -> XuVals] : k \in 1..MaxNOrig}

Problems ==
  {Problem(b[1], b[2], c[1], c[2], c[3], c[4]) :
     b \in Bounds, c \in ConstraintShapes}

\* pb.type == 'nonlinearly constrained'
IsNonlinear(p) == p.m_nonlinear_ub > 0 \/ p.m_nonlinear_eq > 0

\* -------------------------------------------------------------- options
\* npt accepted for a problem of dimension n: _set_default_options rejects
\* npt <= 0 and npt > (n+1)(n+2)/2, Quadratic.__init__ rejects npt < n+1.
NptVals(n) == {k \in 1..(((n + 1) * (n + 2)) \div 2) : k >= n + 1}

\* The options after _set_default_options, for the configurations it accepts.
OptionsFor(p) ==
  {o \in [max_eval : 1..MaxEvalBound, max_iter : 1..MaxIterBound,
          npt : NptVals(p.n), target : TargetVals,
          radius_init : RadiusInitVals, radius_final : RadiusFinalVals] :
     o.radius_init >= o.radius_final}

\* Mutant of CapRadius: the initial radius is left as it is given.
CapRadius_None(o, p) == o

\* Interpolation.__init__: reduce the initial trust-region radius if necessary.
CapRadius(o, p) ==
  IF o.radius_init > p.max_radius
    THEN [o EXCEPT !.radius_init = p.max_radius,
                   !.radius_final = Min2(o.radius_final, p.max_radius)]
    ELSE o

\* ---------------------------------------------------------------- state
VARIABLES
  pc,                  \* position in minimize
  pb,                  \* the problem (Problem)
  options,             \* the options dictionary
  n_eval,              \* pb.n_eval
  target_init,         \* framework.models.target_init
  radius,              \* framework.radius
  resolution,          \* framework.resolution
  success, k_new, n_short_steps, n_very_short_steps, n_alt_models, n_iter,
  radius_save, reduce_resolution, improve_geometry,
  penalty_decreased,   \* decrease_penalty was called in this iteration
  fun_val, r_val, target,   \* the last evaluation made by _eval
  result,              \* the OptimizeResult returned, NoResult before
  warnings,            \* keys for which _set_default_options has warned
  lookup,              \* number of option names resolved so far
  x_base,              \* interpolation.x_base
  xpt,                 \* interpolation.xpt, xpt[i][k] with k = 0..npt-1
  vals,                \* fun_val, cub_val, ceq_val: one row per point
  model_upd,           \* number of updates applied to each quadratic model
  n_upd,               \* number of calls of update_interpolation
  call,                \* the last call made on the models, with its arguments
  quad,                \* coefficients of the quadratic models followed
  trace                \* answers of the framework in the current iteration

vars ==
  <<pc, pb, options, n_eval, target_init, radius, resolution,
    success, k_new, n_short_steps, n_very_short_steps, n_alt_models, n_iter,
    radius_save, reduce_resolution, improve_geometry, penalty_decreased,
    fun_val, r_val, target, result,
    warnings, lookup, x_base, xpt, vals, model_upd, n_upd, call, quad, trace>>

\* The state of the option handling and of the interpolation set and models.
optVars == <<warnings, lookup>>
modelVars == <<x_base, xpt, vals, model_upd, n_upd, call, quad>>
auxVars == <<optVars, modelVars, trace>>

loopVars ==
  <<success, k_new, n_short_steps, n_very_short_steps, n_alt_models, n_iter,
    radius_save, reduce_resolution, improve_geometry, penalty_decreased>>

evalVars == <<fun_val, r_val, target>>

\* The values of the last evaluation are not read again once they are
\* stored in the interpolation set or a new iteration starts.
ClearEval == fun_val' = None /\ r_val' = None /\ target' = FALSE

NoResult == [status |-> None]

\* The control loop is followed without the contents of the interpolation
\* set: the results of the operations on it are inputs of its actions.
NoModels ==
  /\ x_base = <<>> /\ xpt = <<>> /\ vals = <<>> /\ model_upd = <<>>
  /\ n_upd = 0
  /\ call = [op |-> "none"]
  /\ quad = <<>>

\* The answers of the framework are recorded in LoopSpec only, until the
\* iteration ends; elsewhere the record stays as it is.
NoTrace == [branch |-> "off"]
Traced(rec) == trace' = IF trace = NoTrace THEN NoTrace ELSE rec

\* State of minimize once its options are resolved.
RunInit ==
  /\ n_eval = 0
  /\ target_init = FALSE
  /\ radius = None /\ resolution = None
  /\ success = FALSE /\ k_new = None
  /\ n_short_steps = 0 /\ n_very_short_steps = 0 /\ n_alt_models = 0
  /\ n_iter = 0
  /\ radius_save = None
  /\ reduce_resolution = FALSE /\ improve_geometry = FALSE
  /\ penalty_decreased = FALSE
  /\ fun_val = None /\ r_val = None /\ target = FALSE
  /\ result = NoResult

\* _build_result: the point (x, fun, maxcv) comes from the filter,
\* pb.best_eval(penalty); maxcv is in units of 10*eps.
SuccessTol(p, xabs) ==
  MaxOfSeq(<<p.n, p.m_linear_ub, p.m_linear_eq, p.m_nonlinear_ub,
             p.m_nonlinear_eq, 1>>) * Max2(xabs, 1)

\* Mutant of _build_result: the constraint violation is not tested.
_build_result_NoMaxcv(p, succ, status, nit, nfev, maxcv, xabs) ==
  [status |-> status, success |-> succ,
   nit |-> nit, nfev |-> nfev, maxcv |-> maxcv, xabs |-> xabs]

_build_result(p, succ, status, nit, nfev, maxcv, xabs) ==
  [status |-> status,
   success |-> IF status # TARGET_SUCCESS
                 THEN succ /\ maxcv < SuccessTol(p, xabs)
                 ELSE succ,
   nit |-> nit, nfev |-> nfev, maxcv |-> maxcv, xabs |-> xabs]

\* minimize returns: the result is built from the best point of the filter,
\* whose constraint violation is at, or just below, the tolerance.
Return(succ, status, nit, nfev) ==
  /\ pc' = "done"
  /\ \E maxcv \in {SuccessTol(pb, MaxXAbs) - 1, SuccessTol(pb, MaxXAbs)} :
       result' = _build_result(pb, succ, status, nit, nfev, maxcv, MaxXAbs)

Init ==
  /\ pc = "start"
  /\ pb \in Problems
  /\ options \in OptionsFor(pb)
  /\ RunInit
  /\ warnings = {} /\ lookup = 0
  /\ NoModels
  /\ trace = NoTrace

\* -------------------------------------------------------------- actions
\* minimize, up to the creation of the trust-region framework: the two
\* early returns, then Interpolation.__init__ caps the radii and the
\* framework starts with radius = resolution = radius_init.
\* Mutant of EarlyStatus: the feasibility of the bounds is not tested.
EarlyStatus_NoInfeasible(p) ==
  IF p.n = 0 THEN FIXED_SUCCESS ELSE None

\* Mutant of EarlyStatus: the fixed variables are not tested.
EarlyStatus_NoFixed(p) ==
  IF ~p.is_feasible THEN INFEASIBLE_ERROR ELSE None

\* minimize: the computations are skipped when the bounds are infeasible
\* or fix all the variables.
EarlyStatus(p) ==
  IF ~p.is_feasible THEN INFEASIBLE_ERROR
  ELSE IF p.n = 0 THEN FIXED_SUCCESS
  ELSE None

Start ==
  /\ pc = "start"
  /\ IF EarlyStatus(pb) = INFEASIBLE_ERROR
       THEN /\ Return(FALSE, INFEASIBLE_ERROR, 0, n_eval)
            /\ UNCHANGED <<options, radius, resolution>>
       ELSE IF EarlyStatus(pb) = FIXED_SUCCESS
         THEN /\ Return(TRUE, FIXED_SUCCESS, 0, n_eval)
              /\ UNCHANGED <<options, radius, resolution>>
         ELSE /\ options' = CapRadius(options, pb)
              /\ radius' = options'.radius_init
              /\ resolution' = options'.radius_init
              /\ pc' = "sampling"
              /\ result' = result
  /\ UNCHANGED <<auxVars, pb, n_eval, target_init, loopVars, evalVars>>

\* Number of initial interpolation points that Models.__init__ evaluates.
NSample(o) == Min2(o.npt, o.max_eval)

\* Models.__init__ stops at a point below the target that is nearly feasible.
TargetInit(f, cv, o) == f < o.target /\ cv <= FeasibilityTol

\* Models.__init__, one pass of the loop over the initial interpolation
\* points: point k = n_eval is evaluated and tested against the target.
Sample ==
  /\ pc = "sampling"
  /\ ~target_init
  /\ n_eval < NSample(options)
  /\ n_eval' = n_eval + 1
  /\ \E f \in FunVals, cv \in {0, FeasibilityTol, FeasibilityTol + 1} :
       /\ fun_val' = f
       /\ r_val' = cv
       /\ target_init' = TargetInit(f, cv, options)
  /\ UNCHANGED <<auxVars, pc, pb, options, radius, resolution, loopVars, target,
                 result>>

\* Quadratic.__init__ raises ValueError when npt < n + 1.
QuadraticRejects(o, p) == o.npt < p.n + 1

\* End of Models.__init__ and minimize after the framework is created: the
\* models are built when max_eval > npt and the target is not reached,
\* which raises ValueError when npt < n + 1; the run returns when the
\* target was reached by an initial point or the initial points used up
\* the evaluations.
EndSampling ==
  /\ pc = "sampling"
  /\ target_init \/ n_eval >= NSample(options)
  /\ IF options.max_eval > options.npt /\ ~target_init
         /\ QuadraticRejects(options, pb)
       THEN pc' = "ValueError" /\ result' = result
       ELSE IF target_init
         THEN Return(TRUE, TARGET_SUCCESS, 0, n_eval)
         ELSE IF n_eval >= options.max_eval
           THEN Return(FALSE, MAX_ITER_WARNING, 0, n_eval)
           ELSE pc' = "loop" /\ result' = result
  /\ UNCHANGED <<auxVars, pb, options, n_eval, target_init, radius, resolution,
                 loopVars, evalVars>>

\* Norms that get_trust_region_step may return, around 0.1 and 0.5 times
\* the resolution.
StepNorms(rho) == {rho \div 10, rho \div 2, rho \div 2 + 1}

\* Distances that get_index_to_remove may return, around max(radius, 2 rho).
DistNews(delta, rho) ==
  {Max2(delta, 2 * rho), Max2(delta, 2 * rho) + 1}

\* Reduction ratios in hundredths, around 0.01 and 0.1.
RatioVals == {0, 1, 10, 11}

\* Radii that update_radius may set.
UpdateRadiusVals(delta, rho) == {rho, delta, 10 * rho}

\* Resolutions that reduce_resolution may set: lower, not below radius_final.
ReduceResolutionVals(rho, o) ==
  {r \in {o.radius_final, rho \div 10} : o.radius_final <= r /\ r < rho}

\* Mutant of MaxIterReached: one iteration too many.
MaxIterReached_Late(o) == n_iter > o.max_iter

\* Head of the loop: the maximum number of iterations has been reached.
MaxIterReached(o) == n_iter >= o.max_iter

\* Mutant of NextIter: the iteration is not counted.
NextIter_Stuck(n) == n

\* Head of the loop: n_iter += 1.
NextIter(n) == n + 1

\* The loop is left when the maximum number of iterations is reached.
MaxIterExit ==
  /\ pc = "loop"
  /\ MaxIterReached(options)
  /\ Return(success, MAX_ITER_WARNING, n_iter, n_eval)
  /\ UNCHANGED <<auxVars, pb, options, n_eval, target_init, radius, resolution,
                 loopVars, evalVars>>

\* Mutant of IndexToRemove: k_new keeps the value it had.
IndexToRemove_Stale(k, k_old) == k_old

\* k_new, dist_new = framework.get_index_to_remove(): k_new is the index
\* that the call returns.
IndexToRemove(k, k_old) == k

\* Short-step branch: the counters after the step, from the radius saved
\* before the step, the resolution and the norm of the step.
ShortSteps(delta_save, rho, n) == IF delta_save > rho THEN 0 ELSE n + 1

\* Mutant of VeryShortSteps: the norm of the step is not looked at.
VeryShortSteps_Any(delta_save, rho, s_norm, n) ==
  IF delta_save > rho THEN 0 ELSE n + 1

VeryShortSteps(delta_save, rho, s_norm, n) ==
  IF delta_save > rho THEN 0
  ELSE IF 10 * s_norm > rho THEN 0
  ELSE n + 1

\* The trial step is too short: s_norm <= 0.5 * resolution.
ShortStep ==
  /\ pc = "loop"
  /\ ~MaxIterReached(options)
  /\ n_iter' = NextIter(n_iter)
  /\ radius_save' = radius
  /\ penalty_decreased' = FALSE
  /\ radius % 10 = 0
  /\ radius' = radius \div 10
  /\ \E s_norm \in StepNorms(resolution) :
       /\ 2 * s_norm <= resolution
       /\ LET short == ShortSteps(radius, resolution, n_short_steps)
              very == VeryShortSteps(radius, resolution, s_norm,
                                     n_very_short_steps)
          IN /\ reduce_resolution' = (short >= 5 \/ very >= 3)
             /\ IF reduce_resolution'
                  THEN /\ n_short_steps' = 0
                       /\ n_very_short_steps' = 0
                       /\ improve_geometry' = FALSE
                       /\ k_new' = k_new
                       /\ Traced([branch |-> "short", iter |-> n_iter',
                                  s_norm |-> s_norm, k |-> None,
                                  dist_new |-> None])
                  ELSE /\ n_short_steps' = short
                       /\ n_very_short_steps' = very
                       /\ \E k \in 0..(options.npt - 1),
                             dist_new \in DistNews(radius', resolution) :
                            /\ k_new' = IndexToRemove(k, k_new)
                            /\ improve_geometry' =
                                 (dist_new > Max2(radius', 2 * resolution))
                            /\ Traced([branch |-> "short", iter |-> n_iter',
                                       s_norm |-> s_norm, k |-> k,
                                       dist_new |-> dist_new])
  /\ pc' = "reduce"
  /\ ClearEval
  /\ UNCHANGED <<optVars, modelVars, pb, options, n_eval, target_init, resolution, success,
                 n_alt_models, result>>

\* Mutant of PenaltyRestart: the iteration is handled as a short step that
\* resets the counters.
PenaltyRestart_Reset ==
  /\ pc = "loop"
  /\ ~MaxIterReached(options)
  /\ n_iter' = NextIter(n_iter)
  /\ radius_save' = radius
  /\ penalty_decreased' = FALSE
  /\ \E s_norm \in StepNorms(resolution) : 2 * s_norm > resolution
  /\ reduce_resolution' = FALSE
  /\ improve_geometry' = FALSE
  /\ n_short_steps' = 0
  /\ n_very_short_steps' = 0
  /\ Traced([branch |-> "restart", iter |-> n_iter'])
  /\ ClearEval
  /\ pc' = "reduce"
  /\ UNCHANGED <<optVars, modelVars, pb, options, n_eval, target_init, radius,
                 resolution, success, k_new, n_alt_models, result>>

\* Classical iteration in which increase_penalty changes the best point.
PenaltyRestart ==
  /\ pc = "loop"
  /\ ~MaxIterReached(options)
  /\ n_iter' = NextIter(n_iter)
  /\ radius_save' = radius
  /\ penalty_decreased' = FALSE
  /\ \E s_norm \in StepNorms(resolution) : 2 * s_norm > resolution
  /\ reduce_resolution' = FALSE
  /\ improve_geometry' = FALSE
  /\ Traced([branch |-> "restart", iter |-> n_iter'])
  /\ ClearEval
  /\ pc' = "reduce"
  /\ UNCHANGED <<optVars, modelVars, pb, options, n_eval, target_init, radius, resolution,
                 success, k_new, n_short_steps, n_very_short_steps,
                 n_alt_models, result>>

\* Classical iteration in which the best point is unchanged.
TrialStep ==
  /\ pc = "loop"
  /\ ~MaxIterReached(options)
  /\ n_iter' = NextIter(n_iter)
  /\ radius_save' = radius
  /\ penalty_decreased' = FALSE
  /\ \E s_norm \in StepNorms(resolution) : 2 * s_norm > resolution
  /\ pc' = "trial"
  /\ Traced([branch |-> "trial", iter |-> n_iter'])
  /\ ClearEval
  /\ UNCHANGED <<optVars, modelVars, pb, options, n_eval, target_init, radius, resolution,
                 success, k_new, n_short_steps, n_very_short_steps,
                 n_alt_models, reduce_resolution, improve_geometry, result>>

\* Mutant of TargetReached: the objective value must be below the target.
TargetReached_Strict(f, cv, o) == f < o.target /\ cv < TolBounds

\* _eval: the target is reached by a point whose constraint violation is
\* below the tolerance of the bounds.
TargetReached(f, cv, o) == f <= o.target /\ cv < TolBounds

\* Mutant of MaxEvalError: one evaluation too many.
MaxEvalError_Late(o) == n_eval > o.max_eval

\* _eval raises MaxEvalError when no evaluation is left.
MaxEvalError(o) == n_eval >= o.max_eval

\* _eval and the handling of its outcome in minimize: MaxEvalError ends
\* the loop, a point that reaches the target ends the run.
Eval(next) ==
  IF MaxEvalError(options)
    THEN /\ Return(success, MAX_EVAL_WARNING, n_iter, n_eval)
         /\ UNCHANGED <<n_eval, evalVars>>
    ELSE /\ n_eval' = n_eval + 1
         /\ \E f \in FunVals, cv \in {TolBounds - 1, TolBounds} :
              /\ fun_val' = f
              /\ r_val' = cv
              /\ target' = TargetReached(f, cv, options)
         /\ IF target'
              THEN Return(TRUE, TARGET_SUCCESS, n_iter, n_eval')
              ELSE pc' = next /\ result' = result

\* Evaluation of the trial step.
TrialEval ==
  /\ pc = "trial"
  /\ Eval("evaluated")
  /\ UNCHANGED <<auxVars, pb, options, target_init, radius, resolution,
                 loopVars>>

\* Evaluation of the second-order correction step.
SocEval ==
  /\ pc = "evaluated"
  /\ IsNonlinear(pb)
  /\ Eval("corrected")
  /\ UNCHANGED <<auxVars, pb, options, target_init, radius, resolution,
                 loopVars>>

\* Classical iteration, alternative models: the counter before it is
\* compared with 3; small_grad stands for
\* norm(grad) < 10 * norm(grad_alt), r for the ratio in hundredths.
AltModels(delta, rho, r, small_grad, n) ==
  IF delta <= rho
    THEN IF r >= 1 THEN 0
         ELSE IF small_grad THEN 0
         ELSE n + 1
    ELSE n

\* Mutant of ResetModels: the radius is not compared with the resolution.
ResetModels_AnyRadius(delta, rho, r, small_grad, n) ==
  r < 1 /\ ~small_grad /\ n + 1 >= 3

\* Classical iteration: reset_models is called.
ResetModels(delta, rho, r, small_grad, n) ==
  delta <= rho /\ r < 1 /\ AltModels(delta, rho, r, small_grad, n) >= 3

\* Mutant of ImproveGeometry: ill-conditioning counts only for low ratios.
ImproveGeometry_LowRatio(ill, r, dist_new, delta, rho) ==
  (ill \/ dist_new > Max2(delta, 2 * rho)) /\ r <= 10

\* Classical iteration: a geometry step is requested.
ImproveGeometry(ill, r, dist_new, delta, rho) ==
  ill \/ (r <= 10 /\ dist_new > Max2(delta, 2 * rho))

\* Mutant of ReduceRequested: improve_geometry is not looked at.
ReduceRequested_AnyGeometry(delta_save, rho, r, improve) ==
  delta_save <= rho /\ r <= 10

\* Classical iteration: a reduction of the resolution is requested.
ReduceRequested(delta_save, rho, r, improve) ==
  delta_save <= rho /\ r <= 10 /\ ~improve

\* End of a classical iteration: reduction ratio, update of the
\* interpolation set and of the radius, alternative models, multipliers.
Update ==
  /\ pc \in {"evaluated", "corrected"}
  /\ \E r \in RatioVals, ill \in BOOLEAN,
        delta \in UpdateRadiusVals(radius, resolution), small_grad \in BOOLEAN,
        k \in 0..(options.npt - 1) :
       /\ radius' = delta
       /\ n_alt_models' =
            IF ResetModels(delta, resolution, r, small_grad, n_alt_models)
              THEN 0
              ELSE AltModels(delta, resolution, r, small_grad, n_alt_models)
       /\ k_new' = IndexToRemove(k, k_new)
       /\ \E dist_new \in DistNews(delta, resolution) :
            /\ improve_geometry' =
                 ImproveGeometry(ill, r, dist_new, delta, resolution)
            /\ reduce_resolution' =
                 ReduceRequested(radius_save, resolution, r,
                                 improve_geometry')
            /\ Traced([branch |-> "classical", iter |-> n_iter,
                       ratio |-> r, ill |-> ill, dist_new |-> dist_new,
                       small_grad |->
                         (delta <= resolution /\ r < 1 /\ small_grad),
                       k |-> k,
                       reset |-> ResetModels(delta, resolution, r,
                                             small_grad, n_alt_models)])
  /\ pc' = "reduce"
  /\ ClearEval
  /\ UNCHANGED <<optVars, modelVars, pb, options, n_eval, target_init, resolution, success,
                 n_short_steps, n_very_short_steps, n_iter, radius_save,
                 penalty_decreased, result>>

\* Mutant of RadiusFinalReached: the resolution is compared with radius_init.
RadiusFinalReached_Init(rho, o) == rho <= o.radius_init

\* The resolution has reached the final trust-region radius.
RadiusFinalReached(rho, o) == rho <= o.radius_final

\* No reduction of the resolution is requested.
ReduceSkip ==
  /\ pc = "reduce"
  /\ ~reduce_resolution
  /\ pc' = "geometry"
  /\ UNCHANGED <<auxVars, pb, options, n_eval, target_init, radius, resolution,
                 loopVars, evalVars, result>>

\* The resolution cannot be reduced further: the run succeeds.
RadiusExit ==
  /\ pc = "reduce"
  /\ reduce_resolution
  /\ RadiusFinalReached(resolution, options)
  /\ success' = TRUE
  /\ Return(TRUE, RADIUS_SUCCESS, n_iter, n_eval)
  /\ UNCHANGED <<auxVars, pb, options, n_eval, target_init, radius, resolution,
                 k_new, n_short_steps, n_very_short_steps, n_alt_models,
                 n_iter, radius_save, reduce_resolution, improve_geometry,
                 penalty_decreased, evalVars>>

\* Mutant of ReduceResolution: the resolution is reduced whether or not a
\* reduction is requested, and the penalty is left as it is.
ReduceResolution_Always ==
  /\ pc = "reduce"
  /\ ~RadiusFinalReached(resolution, options)
  /\ resolution' \in ReduceResolutionVals(resolution, options)
  /\ pc' = "geometry"
  /\ UNCHANGED <<auxVars, pb, options, n_eval, target_init, radius, loopVars,
                 evalVars, result>>

\* The resolution is reduced, then the penalty is decreased.
ReduceResolution ==
  /\ pc = "reduce"
  /\ reduce_resolution
  /\ ~RadiusFinalReached(resolution, options)
  /\ resolution' \in ReduceResolutionVals(resolution, options)
  /\ penalty_decreased' = TRUE
  /\ pc' = "geometry"
  /\ UNCHANGED <<auxVars, pb, options, n_eval, target_init, radius, success,
                 k_new, n_short_steps, n_very_short_steps, n_alt_models,
                 n_iter, radius_save, reduce_resolution, improve_geometry,
                 evalVars, result>>

\* No geometry step is requested: next iteration.
GeometrySkip ==
  /\ pc = "geometry"
  /\ ~improve_geometry
  /\ pc' = "loop"
  /\ Traced([branch |-> "none", iter |-> n_iter])
  /\ UNCHANGED <<optVars, modelVars, pb, options, n_eval, target_init, radius, resolution,
                 loopVars, evalVars, result>>

\* Geometry step: evaluation at x_best + step, update of column k_new.
GeometryStep ==
  /\ pc = "geometry"
  /\ improve_geometry
  /\ Eval("loop")
  /\ Traced([branch |-> "geometry", iter |-> n_iter, k |-> k_new,
             n_eval |-> n_eval' - n_eval])
  /\ UNCHANGED <<optVars, modelVars, pb, options, target_init, radius, resolution,
                 loopVars>>

Next ==
  \/ Start
  \/ Sample
  \/ EndSampling
  \/ MaxIterExit
  \/ ShortStep
  \/ PenaltyRestart
  \/ TrialStep
  \/ TrialEval
  \/ SocEval
  \/ Update
  \/ ReduceSkip
  \/ RadiusExit
  \/ ReduceResolution
  \/ GeometrySkip
  \/ GeometryStep

Spec == Init /\ [][Next]_vars

FairSpec == Init /\ [][Next]_vars /\ WF_vars(Next)

\* Longer runs on one problem, with the answers of the framework recorded:
\* the radius can be divided by ten MaxLoopIter times, and MaxLoopEval
\* evaluations are left after the initial sampling.
LoopRadius == 100000
LoopOptions(p) ==
  {[max_eval |-> k + MaxLoopEval, max_iter |-> MaxLoopIter, npt |-> k,
    target |-> 0, radius_init |-> LoopRadius, radius_final |-> f] :
     k \in {p.n + 1}, f \in {LoopRadius \div 10}}

LoopInit ==
  /\ pc = "start"
  /\ pb = Problem([i \in 1..1 |-> NegInf], [i \in 1..1 |-> Inf],
                  1, 0, 0, MaxM)
  /\ options \in LoopOptions(pb)
  /\ RunInit
  /\ warnings = {} /\ lookup = 0
  /\ NoModels
  /\ trace = [branch |-> "none", iter |-> 0]

LoopSpec == LoopInit /\ [][Next]_vars

\* ------------------------------------------------------- option handling
\* settings.py, class Options: member names and their values.
Options ==
  [DEBUG |-> "debug", HIST_SIZE |-> "hist_size", MAX_EVAL |-> "max_eval",
   MAX_ITER |-> "max_iter", NPT |-> "npt", RADIUS_INIT |-> "radius_init",
   RADIUS_FINAL |-> "radius_final", STORE_HIST |-> "store_hist",
   TARGET |-> "target", VERBOSE |-> "verbose"]

\* Options.__members__.values()
OptionsValues == {Options[m] : m \in DOMAIN Options}

\* settings.py, DEFAULT_OPTIONS: radii in units of 1e-8.
DEFAULT_RADIUS_INIT == 100000000
DEFAULT_RADIUS_FINAL == 100
DefaultNpt(n) == 2 * n + 1
DefaultMaxEval(n) == 500 * n
DefaultMaxIter(n) == 1000 * n

\* Keys of DEFAULT_OPTIONS.
DEFAULT_OPTIONS ==
  {Options[m] : m \in {"DEBUG", "MAX_EVAL", "MAX_ITER", "NPT", "RADIUS_INIT",
                       "RADIUS_FINAL", "STORE_HIST", "HIST_SIZE", "TARGET",
                       "VERBOSE"}}

\* The keys that the docstring of minimize documents for the names that
\* main.py reads and settings.py does not define.
DocumentedKeys ==
  [FEASIBILITY_TOL |-> "feasibility_tol", FILTER_SIZE |-> "filter_size",
   STORE_HISTORY |-> "store_history", HISTORY_SIZE |-> "history_size"]

\* The option names read by minimize, then by _set_default_options, in the
\* order of their first evaluation.
NamesRead ==
  <<"VERBOSE", "FEASIBILITY_TOL", "STORE_HISTORY", "HISTORY_SIZE",
    "FILTER_SIZE", "DEBUG", "RADIUS_INIT", "RADIUS_FINAL", "NPT",
    "MAX_EVAL", "MAX_ITER", "TARGET">>

\* Dictionary operations: key in options, options[key] = v, setdefault.
Has(o, k) == k \in DOMAIN o
Put(o, k, v) == [x \in DOMAIN o \cup {k} |-> IF x = k THEN v ELSE o[x]]
SetDefault(o, k, v) == IF Has(o, k) THEN o ELSE Put(o, k, v)

\* _set_default_options: the checks on the trust-region radii.
RadiusInvalid(o) ==
  \/ Has(o, "radius_init") /\ o.radius_init <= 0
  \/ Has(o, "radius_final") /\ o.radius_final < 0
  \/ /\ Has(o, "radius_init") /\ Has(o, "radius_final")
     /\ o.radius_init < o.radius_final

\* Mutant of DefaultRadii: the final radius defaults without regard to the
\* initial one.
DefaultRadii_NoMin(o) ==
  IF Has(o, "radius_init") /\ Has(o, "radius_final") THEN o
  ELSE IF Has(o, "radius_init")
    THEN Put(o, "radius_final", DEFAULT_RADIUS_FINAL)
  ELSE IF Has(o, "radius_final")
    THEN Put(o, "radius_init", Max2(DEFAULT_RADIUS_INIT, o.radius_final))
  ELSE Put(Put(o, "radius_init", DEFAULT_RADIUS_INIT),
           "radius_final", DEFAULT_RADIUS_FINAL)

\* _set_default_options: the radius that is not given is set from the other.
DefaultRadii(o) ==
  IF Has(o, "radius_init") /\ Has(o, "radius_final") THEN o
  ELSE IF Has(o, "radius_init")
    THEN Put(o, "radius_final", Min2(DEFAULT_RADIUS_FINAL, o.radius_init))
  ELSE IF Has(o, "radius_final")
    THEN Put(o, "radius_init", Max2(DEFAULT_RADIUS_INIT, o.radius_final))
  ELSE Put(Put(o, "radius_init", DEFAULT_RADIUS_INIT),
           "radius_final", DEFAULT_RADIUS_FINAL)

\* _set_default_options: the checks on npt.
NptInvalid(o, n) ==
  Has(o, "npt") /\ (o.npt <= 0 \/ o.npt > ((n + 1) * (n + 2)) \div 2)

\* Mutant of MaxEvalInvalid: max_eval must also exceed npt.
MaxEvalInvalid_Npt(o) ==
  Has(o, "max_eval") /\ (o.max_eval <= 0 \/ o.max_eval <= o.npt)

\* _set_default_options: the check on max_eval, made once npt is set.
MaxEvalInvalid(o) == Has(o, "max_eval") /\ o.max_eval <= 0

\* _set_default_options: the check on max_iter.
MaxIterInvalid(o) == Has(o, "max_iter") /\ o.max_iter <= 0

\* _set_default_options: the options up to npt, up to max_eval, and all.
WithNpt(o, n) == SetDefault(DefaultRadii(o), "npt", DefaultNpt(n))
WithMaxEval(o, n) ==
  LET o1 == WithNpt(o, n)
  IN SetDefault(o1, "max_eval", Max2(DefaultMaxEval(n), o1.npt + 1))
WithDefaults(o, n) ==
  LET o1 == SetDefault(WithMaxEval(o, n), "max_iter", DefaultMaxIter(n))
      o2 == SetDefault(o1, "target", NegInf)
      o3 == SetDefault(o2, DocumentedKeys.FEASIBILITY_TOL, FeasibilityTol)
      o4 == SetDefault(o3, "verbose", FALSE)
      o5 == SetDefault(o4, DocumentedKeys.FILTER_SIZE, Inf)
      o6 == SetDefault(o5, DocumentedKeys.STORE_HISTORY, FALSE)
      o7 == SetDefault(o6, DocumentedKeys.HISTORY_SIZE, Inf)
  IN SetDefault(o7, "debug", FALSE)

\* _set_default_options raises ValueError.
OptionsInvalid(o, n) ==
  \/ RadiusInvalid(o)
  \/ NptInvalid(DefaultRadii(o), n)
  \/ MaxEvalInvalid(WithNpt(o, n))
  \/ MaxIterInvalid(WithMaxEval(o, n))

\* _set_default_options: the keys that are not values of Options.
UnknownOptions(o) == {key \in DOMAIN o : key \notin OptionsValues}

\* Options that a caller may pass: each key is absent (None) or has one of
\* a few values on both sides of the limits that _set_default_options tests.
UserRadiusInit == {None, 0, 5, 1000}
UserRadiusFinal == {None, -1, 1000, 2 * DEFAULT_RADIUS_INIT}
UserNpt(n) == {None, 0, n, n + 1, ((n + 1) * (n + 2)) \div 2 + 1}
UserMaxEval == {None, 0, 1, MaxEvalBound}
UserMaxIter == {None, 0}
UserOther == {None, 1}

\* The dictionary that holds the keys of f whose value is given.
Dict(f) == [k \in {x \in DOMAIN f : f[x] # None} |-> f[k]]

UserOptions(p) ==
  {Dict(f) : f \in [radius_init : UserRadiusInit,
                    radius_final : UserRadiusFinal,
                    npt : UserNpt(p.n), max_eval : UserMaxEval,
                    max_iter : UserMaxIter, foo : UserOther]}

\* minimize is called: options holds the caller's dictionary.
OptionsInit ==
  /\ pc = "options"
  /\ pb \in Problems
  /\ options \in UserOptions(pb)
  /\ RunInit
  /\ warnings = {} /\ lookup = 0
  /\ NoModels
  /\ trace = NoTrace

\* _set_default_options(options, pb.n): ValueError, or the dictionary is
\* completed and one warning is issued for each unknown key.
SetDefaultOptions ==
  /\ pc = "options"
  /\ IF OptionsInvalid(options, pb.n)
       THEN pc' = "ValueError" /\ UNCHANGED <<options, warnings>>
       ELSE /\ options' = WithDefaults(options, pb.n)
            /\ warnings' = UnknownOptions(options')
            /\ pc' = "start"
  /\ UNCHANGED <<lookup, modelVars, trace, pb, n_eval, target_init, radius,
                 resolution, loopVars, evalVars, result>>

OptionsNext ==
  \/ SetDefaultOptions
  \/ Start
  \/ Sample
  \/ EndSampling

\* minimize from its call to the start of the main loop.
OptionsSpec == OptionsInit /\ [][OptionsNext]_vars

\* minimize is called: the option names are still to be resolved.
LookupInit ==
  /\ pc = "minimize"
  /\ pb \in Problems
  /\ options \in UserOptions(pb)
  /\ RunInit
  /\ warnings = {} /\ lookup = 0
  /\ NoModels
  /\ trace = NoTrace

\* Options.<NAME> and DEFAULT_OPTIONS[Options.<NAME>] for the next name that
\* minimize or _set_default_options reads.
Lookup ==
  /\ pc = "minimize"
  /\ lookup < Len(NamesRead)
  /\ lookup' = lookup + 1
  /\ LET name == NamesRead[lookup + 1]
     IN IF name \notin DOMAIN Options THEN pc' = "AttributeError"
        ELSE IF Options[name] \notin DEFAULT_OPTIONS THEN pc' = "KeyError"
        ELSE IF lookup' = Len(NamesRead) THEN pc' = "options"
        ELSE pc' = pc
  /\ UNCHANGED <<warnings, modelVars, trace, pb, options, n_eval, target_init,
                 radius, resolution, loopVars, evalVars, result>>

LookupNext == Lookup

\* The resolution of the option names by minimize.
LookupSpec == LookupInit /\ [][LookupNext]_vars

\* ------------------------------------------- interpolation set and models
MaxUpdates == 1

VecAdd(a, b) == [i \in DOMAIN a |-> a[i] + b[i]]
VecSub(a, b) == [i \in DOMAIN a |-> a[i] - b[i]]

\* Interpolation.__init__, one coordinate of x_base: the four tests are
\* made in turn on the current value; rho is radius_init after the cap.
\* The result holds the coordinate and the two flags that the initial
\* interpolation points read.
SnapCoord(x0, l, u, rho) ==
  LET very_close_xl == 2 * x0 <= 2 * l + rho
      x1 == IF very_close_xl THEN l ELSE x0
      close_xl == 2 * l + rho < 2 * x1 /\ x1 <= l + rho
      x2 == IF close_xl THEN Min2(l + rho, u) ELSE x1
      very_close_xu == 2 * x2 >= 2 * u - rho
      x3 == IF very_close_xu THEN u ELSE x2
      close_xu == 2 * x3 < 2 * u - rho /\ u - rho <= x3
      x4 == IF close_xu THEN Max2(u - rho, l) ELSE x3
  IN [x |-> x4, very_close_xl |-> very_close_xl,
      very_close_xu |-> very_close_xu]

\* Interpolation.__init__: the base point.
InitXBase(x0, xl, xu, rho) ==
  [i \in DOMAIN x0 |-> SnapCoord(x0[i], xl[i], xu[i], rho).x]

\* Interpolation.__init__, columns 1..n: the entry on the coordinate of
\* the column, from the flags s of that coordinate.
FirstEntry(s, rho) == IF s.very_close_xu THEN -rho ELSE rho

\* Mutant of SecondEntry: at an upper bound the step is not doubled.
SecondEntry_Single(s, rho) ==
  IF s.very_close_xl THEN 2 * rho ELSE -rho

\* Interpolation.__init__, columns n+1..2n.
SecondEntry(s, rho) ==
  IF s.very_close_xl THEN 2 * rho
  ELSE IF s.very_close_xu THEN -2 * rho
  ELSE -rho

\* Interpolation.__init__, columns beyond 2n: the two coordinates, counted
\* from 0, on which column k copies the entries of columns k1+1 and k2+1.
PairSpread(k, n) == (k - n - 1) \div n
PairFirst(k, n) == k - (1 + PairSpread(k, n)) * n - 1

\* Mutant of PairSecond: the second coordinate is not reduced modulo n.
PairSecond_NoMod(k, n) == PairFirst(k, n) + PairSpread(k, n)

PairSecond(k, n) == (PairFirst(k, n) + PairSpread(k, n)) % n

\* Interpolation.__init__: entry (i, k) of the initial xpt, i = 1..n and
\* k = 0..npt-1; column 0 is left at zero.
RECURSIVE InitXptEntry(_, _, _, _, _, _, _)
InitXptEntry(i, k, n, x0, xl, xu, rho) ==
  LET s == SnapCoord(x0[i], xl[i], xu[i], rho)
  IN IF k = 0 THEN 0
     ELSE IF k <= n
       THEN IF i # k THEN 0 ELSE FirstEntry(s, rho)
     ELSE IF k <= 2 * n
       THEN IF i # k - n THEN 0 ELSE SecondEntry(s, rho)
     ELSE LET k1 == PairFirst(k, n)
              k2 == PairSecond(k, n)
          IN IF i = k1 + 1 \/ i = k2 + 1
               THEN InitXptEntry(i, i, n, x0, xl, xu, rho)
               ELSE 0

InitXpt(n, npt, x0, xl, xu, rho) ==
  [i \in 1..n |-> [k \in 0..(npt - 1) |->
     InitXptEntry(i, k, n, x0, xl, xu, rho)]]

\* Column k of xpt, and Interpolation.point(k).
Col(X, k) == [i \in DOMAIN X |-> X[i][k]]
point(xb, X, k) == VecAdd(xb, Col(X, k))

\* Number of quadratic models: the objective function, the nonlinear
\* inequality constraints, then the nonlinear equality constraints.
NModels(p) == 1 + p.m_nonlinear_ub + p.m_nonlinear_eq

\* Values stored for the initial point k, and for a new point.
InitRow(k) == [fun |-> k, cub |-> k + 1, ceq |-> 0 - k]
NewRows == {[fun |-> -1, cub |-> 1, ceq |-> 0]}

\* Bounds of a reduced problem, the same on every coordinate, and starting
\* points within them.
ModelBounds ==
  {b \in Bounds : \A i \in DOMAIN b[1] :
     b[1][i] < b[2][i] /\ b[1][i] = b[1][1] /\ b[2][i] = b[2][1]}
X0Vals == {0, 8, Width}
ModelX0(b) ==
  {[i \in DOMAIN b[1] |-> c] :
     c \in {v \in X0Vals : b[1][1] <= v /\ v <= b[2][1]}}

\* Options with which the models are built: max_eval > npt.
ModelOptions(p) ==
  {[max_eval |-> k + 1, max_iter |-> 1, npt |-> k, target |-> 0,
    radius_init |-> 100, radius_final |-> 1] : k \in NptVals(p.n)}

\* Models.__init__ has built the interpolation set, evaluated the initial
\* points and built the quadratic models.
ModelsInit ==
  /\ pc = "models"
  /\ \E b \in ModelBounds, c \in ConstraintShapes :
       /\ pb = Problem(b[1], b[2], c[1], c[2], c[3], c[4])
       /\ \E o \in ModelOptions(pb), x0 \in ModelX0(b) :
            /\ options = CapRadius(o, pb)
            /\ x_base = InitXBase(x0, b[1], b[2], options.radius_init)
            /\ xpt = InitXpt(pb.n, options.npt, x0, b[1], b[2],
                             options.radius_init)
  /\ vals = [k \in 0..(options.npt - 1) |-> InitRow(k)]
  /\ model_upd = [i \in 1..NModels(pb) |-> 0]
  /\ n_upd = 0
  /\ call = [op |-> "init"]
  /\ quad = <<>>
  /\ trace = NoTrace
  /\ RunInit
  /\ warnings = {} /\ lookup = 0

\* Results that Quadratic.update may return for the models, in order: no
\* solve is ill-conditioned, or the solve of one model is.
IllCases(nm) == {[i \in 1..nm |-> i = j] : j \in {0, 1, nm}}

\* Models.update_interpolation: `ill_conditioned or model.update(...)`
\* calls the update of model i only if no earlier update returned true.
UpdateCalled(ill, i) == \A j \in 1..(i - 1) : ~ill[j]

\* Points that the framework may pass as x_new: half the radius away from
\* the base point, along the first coordinate or along all of them.
NewPoints(xb, rho) ==
  {[i \in DOMAIN xb |-> xb[i] + (IF i = 1 THEN rho \div 2 ELSE 0)],
   [i \in DOMAIN xb |-> xb[i] - rho \div 2]}

\* Mutant of NewColumn: the new point is stored as it is given.
NewColumn_Absolute(x_new, xb) == x_new

\* Models.update_interpolation: the new column, relative to the base point.
NewColumn(x_new, xb) == VecSub(x_new, xb)

\* Models.update_interpolation(k_new, x_new, fun_val, cub_val, ceq_val).
UpdateInterpolation ==
  /\ pc = "models"
  /\ n_upd < MaxUpdates
  /\ n_upd' = n_upd + 1
  /\ \E k \in {0, options.npt - 1},
        x_new \in NewPoints(x_base, options.radius_init),
        row \in NewRows, ill \in IllCases(NModels(pb)) :
       /\ vals' = [vals EXCEPT ![k] = row]
       /\ xpt' = [i \in DOMAIN xpt |->
                   [xpt[i] EXCEPT ![k] = NewColumn(x_new, x_base)[i]]]
       /\ model_upd' = [i \in DOMAIN model_upd |->
                         IF UpdateCalled(ill, i) THEN model_upd[i] + 1
                         ELSE model_upd[i]]
       /\ call' = [op |-> "update", k |-> k, x |-> x_new]
  /\ UNCHANGED <<optVars, trace, quad, x_base, pc, pb, options, n_eval, target_init,
                 radius, resolution, loopVars, evalVars, result>>

\* Sum of the values of the function f over the set S of its arguments.
RECURSIVE SumOver(_, _)
SumOver(f, S) ==
  IF S = {} THEN 0
  ELSE LET e == CHOOSE e \in S : TRUE IN f[e] + SumOver(f, S \ {e})

Dot(a, b) == SumOver([i \in DOMAIN a |-> a[i] * b[i]], DOMAIN a)

\* interpolation.xpt.T @ v: one entry per interpolation point.
XptT(X, v) == [k \in DOMAIN X[1] |-> Dot(Col(X, k), v)]

\* A quadratic model is [const, grad, i_hess, e_hess]: i_hess[k] is the
\* implicit Hessian coefficient of point k, e_hess the explicit Hessian.
\* Quadratic.hess_prod(v, interpolation).
hess_prod(q, X, v) ==
  LET t == XptT(X, v)
  IN [i \in DOMAIN v |->
        Dot(q.e_hess[i], v)
        + SumOver([k \in DOMAIN t |-> X[i][k] * q.i_hess[k] * t[k]],
                  DOMAIN t)]

\* Quadratic.__call__(x, interpolation). The implicit coefficients and the
\* quadratic form of e_hess are even for the models followed, so that the
\* halving is exact.
Quadratic_call(q, xb, X, x) ==
  LET x_diff == VecSub(x, xb)
      t == XptT(X, x_diff)
  IN q.const + Dot(q.grad, x_diff)
     + (SumOver([k \in DOMAIN t |-> q.i_hess[k] * t[k] * t[k]], DOMAIN t)
        + Dot(x_diff, [i \in DOMAIN x_diff |-> Dot(q.e_hess[i], x_diff)]))
       \div 2

\* Quadratic.grad(x, interpolation).
Quadratic_grad(q, xb, X, x) ==
  VecAdd(q.grad, hess_prod(q, X, VecSub(x, xb)))

\* Quadratic.hess(interpolation).
Quadratic_hess(q, X) ==
  [i \in DOMAIN X |-> [j \in DOMAIN X |->
     q.e_hess[i][j]
     + SumOver([k \in DOMAIN X[1] |-> X[i][k] * q.i_hess[k] * X[j][k]],
               DOMAIN X[1])]]

\* Mutant of Quadratic_shift_x_base: the explicit Hessian is left as it is.
Quadratic_shift_x_base_NoHess(q, xb, X, new_x_base) ==
  [const |-> Quadratic_call(q, xb, X, new_x_base),
   grad |-> Quadratic_grad(q, xb, X, new_x_base),
   i_hess |-> q.i_hess,
   e_hess |-> q.e_hess]

\* Quadratic.shift_x_base(interpolation, new_x_base), called before the
\* interpolation set is shifted.
Quadratic_shift_x_base(q, xb, X, new_x_base) ==
  LET shift == VecSub(new_x_base, xb)
      \* (xpt - 0.5 * shift[:, np.newaxis]) @ i_hess
      w == [j \in DOMAIN X |->
              SumOver([k \in DOMAIN X[1] |->
                         ((2 * X[j][k] - shift[j]) * q.i_hess[k]) \div 2],
                      DOMAIN X[1])]
      update == [i \in DOMAIN X |-> [j \in DOMAIN X |-> shift[i] * w[j]]]
  IN [const |-> Quadratic_call(q, xb, X, new_x_base),
      grad |-> Quadratic_grad(q, xb, X, new_x_base),
      i_hess |-> q.i_hess,
      e_hess |-> [i \in DOMAIN X |-> [j \in DOMAIN X |->
                    q.e_hess[i][j] + update[i][j] + update[j][i]]]]

\* Mutant of ShiftedXpt: the interpolation points are not translated.
ShiftedXpt_Unmoved(X, shift) == X

\* Models.shift_x_base: xpt -= shift[:, np.newaxis].
ShiftedXpt(X, shift) ==
  [i \in DOMAIN X |-> [k \in DOMAIN X[i] |-> X[i][k] - shift[i]]]

\* Models.shift_x_base(new_x_base, options): the framework passes x_best,
\* one of the interpolation points.
ShiftXBase ==
  /\ pc = "models"
  /\ \E j \in 0..(options.npt - 1) :
       LET new_x_base == point(x_base, xpt, j)
           shift == VecSub(new_x_base, x_base)
       IN /\ x_base' = VecAdd(x_base, shift)
          /\ xpt' = ShiftedXpt(xpt, shift)
          /\ quad' = [i \in DOMAIN quad |->
                       Quadratic_shift_x_base(quad[i], x_base, xpt,
                                              new_x_base)]
          /\ call' = [op |-> "shift", x |-> new_x_base]
  /\ UNCHANGED <<optVars, trace, vals, model_upd, n_upd, pc, pb, options, n_eval,
                 target_init, radius, resolution, loopVars, evalVars, result>>

ModelsNext ==
  \/ UpdateInterpolation
  \/ ShiftXBase

\* The interpolation set and the models under the calls of the framework.
ModelsSpec == ModelsInit /\ [][ModelsNext]_vars

\* Coefficients of a quadratic model on npt points in dimension n. They
\* result from linear solves on the values of the functions, which are
\* arbitrary: they are drawn from a few shapes, with even second-order
\* coefficients.
QuadCoefs(n, npt) ==
  [const : {3},
   grad : {[i \in 1..n |-> 0], [i \in 1..n |-> i]},
   i_hess : {[k \in 0..(npt - 1) |-> 0],
             [k \in 0..(npt - 1) |-> IF k = npt - 1 THEN 2 ELSE 0],
             [k \in 0..(npt - 1) |-> 2 * (k % 3) - 2]},
   e_hess : {[i \in 1..n |-> [j \in 1..n |-> 0]],
             [i \in 1..n |-> [j \in 1..n |-> IF i = j THEN 2 ELSE i + j]]}]

\* Options with which the models followed are built: the least, the
\* default and the greatest number of points, and a small radius that
\* keeps the coefficients small.
ShiftOptions(p) ==
  {[max_eval |-> k + 1, max_iter |-> 1, npt |-> k, target |-> 0,
    radius_init |-> 4, radius_final |-> 1] :
     k \in {p.n + 1, 2 * p.n + 1, ((p.n + 1) * (p.n + 2)) \div 2}}

\* The models are built; the coefficients of the model of the objective
\* function are followed.
ShiftInit ==
  /\ pc = "models"
  /\ \E n \in 1..MaxDim, b \in {<<NegInf, Inf>>, <<0, Width>>} :
       LET xl == [i \in 1..n |-> b[1]]
           xu == [i \in 1..n |-> b[2]]
       IN /\ pb = Problem(xl, xu, 0, 0, 0, 0)
          /\ \E o \in ShiftOptions(pb), x0 \in ModelX0(<<xl, xu>>) :
               /\ options = CapRadius(o, pb)
               /\ x_base = InitXBase(x0, xl, xu, options.radius_init)
               /\ xpt = InitXpt(pb.n, options.npt, x0, xl, xu,
                                options.radius_init)
  /\ vals = [k \in 0..(options.npt - 1) |-> InitRow(k)]
  /\ model_upd = [i \in 1..NModels(pb) |-> 0]
  /\ n_upd = 0
  /\ call = [op |-> "init"]
  /\ \E q \in QuadCoefs(pb.n, options.npt) : quad = <<q>>
  /\ trace = NoTrace
  /\ RunInit
  /\ warnings = {} /\ lookup = 0

\* The quadratic models under shift_x_base.
ShiftSpec == ShiftInit /\ [][ShiftXBase]_vars

\* Bounds and starting point on one coordinate, <<xl, xu, x0>>: no bounds,
\* a point on, near, between and outside the bounds, and a narrower pair.
CoordCases ==
  {<<NegInf, Inf, 0>>, <<0, Width, 0>>, <<0, Width, Width>>,
   <<0, Width, 8>>, <<0, Width, Width + 5>>, <<0, Width, -3>>,
   <<0, 8, 3>>}

\* Interpolation(pb, options) is about to be built; call holds the bounds
\* and the starting point of pb.
InterpInit ==
  /\ pc = "interpolation"
  /\ \E n \in 1..MaxInterpDim :
       \E c \in [1..n -> CoordCases] :
         /\ call = [op |-> "Interpolation",
                    xl |-> [i \in 1..n |-> c[i][1]],
                    xu |-> [i \in 1..n |-> c[i][2]],
                    x0 |-> [i \in 1..n |-> c[i][3]]]
         /\ pb = Problem(call.xl, call.xu, 0, 0, 0, 0)
         /\ \E k \in NptVals(n), r \in {2, 100} :
              options = [max_eval |-> k + 1, max_iter |-> 1, npt |-> k,
                         target |-> 0, radius_init |-> r, radius_final |-> 1]
  /\ x_base = <<>> /\ xpt = <<>> /\ vals = <<>> /\ model_upd = <<>>
  /\ n_upd = 0
  /\ quad = <<>>
  /\ trace = NoTrace
  /\ RunInit
  /\ warnings = {} /\ lookup = 0

\* Interpolation.__init__: the radius is capped, the base point snapped
\* and the initial interpolation points built.
NewInterpolation ==
  /\ pc = "interpolation"
  /\ pc' = "built"
  /\ options' = CapRadius(options, pb)
  /\ x_base' = InitXBase(call.x0, call.xl, call.xu, options'.radius_init)
  /\ xpt' = InitXpt(pb.n, options.npt, call.x0, call.xl, call.xu,
                    options'.radius_init)
  /\ UNCHANGED <<optVars, trace, vals, model_upd, n_upd, call, quad, pb,
                 n_eval, target_init, radius, resolution, loopVars, evalVars,
                 result>>

\* The construction of the interpolation set from every input.
InterpSpec == InterpInit /\ [][NewInterpolation]_vars

\* ---------------------------------------------------------------- claims
EvalPcs == {"trial", "evaluated", "geometry"}

\* C1: the number of evaluations never exceeds max_eval: the initial
\* sampling makes at most min(npt, max_eval) of them, and every result
\* has nfev <= max_eval.
C1_NfevAtMostMaxEval ==
  /\ n_eval <= options.max_eval
  /\ pc = "sampling" => n_eval <= Min2(options.npt, options.max_eval)
  /\ result # NoResult =>
       result.nfev = n_eval /\ result.nfev <= options.max_eval

\* C1 witness: a run stopped in the loop with all max_eval evaluations made.
C1_Witness ==
  /\ result.status = MAX_EVAL_WARNING
  /\ result.nfev = options.max_eval
  /\ options.max_eval > options.npt
  /\ n_iter >= 1

\* C2: the iteration counter never exceeds max_iter; it is not incremented
\* once it equals max_iter; a run stopped at the head of the loop returns
\* MAX_ITER_WARNING with nit = max_iter and success = false; every result
\* has nit <= max_iter.
C2_NitAtMostMaxIter ==
  [][/\ n_iter' <= options'.max_iter
     /\ n_iter' # n_iter => n_iter < options.max_iter
     /\ (pc = "loop" /\ n_iter >= options.max_iter) =>
          /\ pc' = "done"
          /\ result'.status = MAX_ITER_WARNING
          /\ result'.nit = options.max_iter
          /\ ~result'.success
     /\ result' # NoResult => result'.nit <= options'.max_iter]_vars

\* C2 witness: a run stopped by the iteration budget.
C2_Witness ==
  /\ pc = "done"
  /\ result.status = MAX_ITER_WARNING
  /\ result.nit = options.max_iter
  /\ n_eval < options.max_eval

\* C3 (as claimed): a run that stops because the evaluations are used up,
\* after the initial sampling or at an evaluation in the loop, reports
\* MAX_EVAL_WARNING with success = false.
C3_MaxEvalStatus ==
  [][((pc = "sampling" /\ ~target_init /\ n_eval >= options.max_eval)
       \/ (pc \in EvalPcs /\ n_eval >= options.max_eval /\ pc' = "done"))
      => /\ pc' = "done"
         /\ result'.status = MAX_EVAL_WARNING
         /\ ~result'.success]_vars

\* C4 (as claimed): when the first evaluated point has an objective value
\* at most the target, equality included, and is feasible, the target is
\* flagged as reached, and the run returns TARGET_SUCCESS with nit = 0
\* and success = true without entering the loop.
C4_TargetAtFirstPoint ==
  [][/\ (pc = "sampling" /\ n_eval = 0 /\ n_eval' = 1
          /\ fun_val' <= options.target /\ r_val' = 0) => target_init'
     /\ (pc = "sampling" /\ target_init) =>
          /\ pc' = "done"
          /\ result'.status = TARGET_SUCCESS
          /\ result'.nit = 0
          /\ result'.success]_vars

\* C5: an evaluation of the loop that meets the target (f <= target and
\* maxcv below the tolerance of the bounds) ends the run at once with
\* TARGET_SUCCESS and success = true; the radius, the resolution and the
\* counters are left as they are, and nothing follows the end of the run.
C5_TargetEndsRun ==
  [][/\ (pc \in EvalPcs /\ n_eval' = n_eval + 1
          /\ fun_val' <= options.target /\ r_val' < TolBounds) =>
          /\ pc' = "done"
          /\ result'.status = TARGET_SUCCESS
          /\ result'.success
          /\ result'.nit = n_iter
          /\ result'.nfev = n_eval + 1
          /\ UNCHANGED <<radius, resolution, loopVars>>
     /\ pc = "done" => UNCHANGED vars]_vars

\* C5 witness: the target is met with equality by an evaluation of the loop.
C5_Witness ==
  /\ pc = "done"
  /\ result.status = TARGET_SUCCESS
  /\ result.nit >= 1
  /\ fun_val = options.target
  /\ r_val < TolBounds

\* C6: a run that returns RADIUS_SUCCESS does so where a reduction of the
\* resolution was requested and the resolution is at most radius_final,
\* as capped at initialization.
C6_RadiusSuccess ==
  result.status = RADIUS_SUCCESS =>
    /\ reduce_resolution
    /\ resolution <= options.radius_final
    /\ options.radius_final <= pb.max_radius
    /\ result.nit >= 1

\* C6 witness: RADIUS_SUCCESS at a final radius that the bounds capped.
C6_Witness ==
  /\ result.status = RADIUS_SUCCESS
  /\ reduce_resolution
  /\ resolution = options.radius_final
  /\ options.radius_final = pb.max_radius

\* C7: every run terminates, after at most max_iter iterations, with one
\* status of ExitStatus, which no later step changes.
C7_Terminates ==
  /\ <>[](pc = "done" /\ result.status \in ExitStatus
           /\ result.nit <= options.max_iter)
  /\ [][result # NoResult => result' = result]_vars

\* C7 witness: a run that ends after all its iterations were made.
C7_Witness ==
  /\ pc = "done"
  /\ result.status \in ExitStatus
  /\ result.nit = options.max_iter
  /\ options.max_iter = MaxIterBound

\* C8: infeasible bounds give INFEASIBLE_ERROR with nit = 0 and
\* success = false, never FIXED_SUCCESS; no evaluation is made, the
\* framework is not created and the loop is not entered.
C8_InfeasibleBounds ==
  ~pb.is_feasible =>
    /\ pc \in {"start", "done"}
    /\ n_eval = 0 /\ n_iter = 0 /\ radius = None /\ resolution = None
    /\ pc = "done" =>
         /\ result.status = INFEASIBLE_ERROR
         /\ result.nit = 0
         /\ result.nfev = 0
         /\ ~result.success

\* C8 witness: a run on infeasible bounds has returned.
C8_Witness ==
  ~pb.is_feasible /\ pc = "done" /\ result.status = INFEASIBLE_ERROR

\* C9: feasible bounds that fix every variable give FIXED_SUCCESS with
\* nfev = 0 and nit = 0; the models are not created and the loop is not
\* entered.
C9_AllFixed ==
  (pb.is_feasible /\ pb.n = 0) =>
    /\ pc \in {"start", "done"}
    /\ n_eval = 0 /\ n_iter = 0 /\ radius = None /\ resolution = None
    /\ pc = "done" =>
         /\ result.status = FIXED_SUCCESS
         /\ result.nit = 0
         /\ result.nfev = 0

\* C9 witness: a run with all variables fixed has returned.
C9_Witness ==
  pb.is_feasible /\ pb.n = 0 /\ pc = "done" /\ result.status = FIXED_SUCCESS

\* C10: a result has success = true only with RADIUS_SUCCESS,
\* TARGET_SUCCESS or FIXED_SUCCESS and, unless the status is
\* TARGET_SUCCESS, only with maxcv < 10 eps max(n, m_linear_ub,
\* m_linear_eq, m_nonlinear_ub, m_nonlinear_eq, 1) max(|x|, 1).
C10_SuccessFlag ==
  (result # NoResult /\ result.success) =>
    /\ result.status \in {RADIUS_SUCCESS, TARGET_SUCCESS, FIXED_SUCCESS}
    /\ result.status # TARGET_SUCCESS =>
         \E m \in {pb.n, pb.m_linear_ub, pb.m_linear_eq, pb.m_nonlinear_ub,
                   pb.m_nonlinear_eq, 1} :
           /\ \A q \in {pb.n, pb.m_linear_ub, pb.m_linear_eq,
                        pb.m_nonlinear_ub, pb.m_nonlinear_eq, 1} : q <= m
           /\ result.maxcv < m * (IF result.xabs > 1 THEN result.xabs ELSE 1)

\* C10 witness: RADIUS_SUCCESS results with and without success.
C10_Witness ==
  /\ result.status = RADIUS_SUCCESS
  /\ result.success
  /\ result.maxcv > 0

\* Positions of minimize inside an iteration of the main loop.
IterPcs == {"trial", "evaluated", "corrected", "reduce", "geometry"}

\* C15: the resolution never increases and only the resolution-reduction
\* step changes it: it changes at most once per iteration, where a
\* reduction is requested and the resolution is above radius_final, and
\* the penalty is decreased in the same step; the short-step branch, the
\* classical branch and the geometry step leave it as it is.
C15_ResolutionMonotone ==
  [][/\ resolution # None => resolution' <= resolution
     /\ (resolution # None /\ resolution' # resolution) =>
          /\ pc = "reduce" /\ pc' = "geometry"
          /\ reduce_resolution
          /\ resolution > options.radius_final
          /\ ~penalty_decreased /\ penalty_decreased'
          /\ n_iter' = n_iter
     /\ (pc \in {"loop", "trial", "evaluated", "corrected", "geometry"}) =>
          resolution' = resolution
     /\ n_iter' = n_iter => (penalty_decreased => penalty_decreased')
     /\ penalty_decreased' => resolution' < options.radius_init]_vars

\* C15 witness: the resolution was lowered in an iteration after the first.
C15_Witness ==
  /\ pc = "geometry"
  /\ penalty_decreased
  /\ resolution < options.radius_init
  /\ n_iter >= 2

AcceptedPcs == {"start", "sampling", "loop", "done"}

\* C11 (as claimed): a configuration with 0 < max_eval <= npt is rejected:
\* no run with such a configuration samples an interpolation point or
\* returns a result.
C11_SmallBudgetRejected ==
  (pc \in {"sampling", "done"} /\ n_eval > 0) =>
    options.max_eval > options.npt

\* C11 (amended): max_eval <= 0 is rejected as an input error before any
\* evaluation, and max_eval <= npt is no reason to reject; with
\* 0 < max_eval <= npt the run evaluates at most max_eval initial points
\* and returns a result with nit = 0 without entering the main loop.
C11_SmallBudgetAccepted ==
  [][/\ (pc = "options" /\ "max_eval" \in DOMAIN options
          /\ options.max_eval <= 0) => (pc' = "ValueError" /\ n_eval' = 0)
     /\ (pc = "options" /\ pc' = "ValueError") =>
          \/ "max_eval" \in DOMAIN options /\ options.max_eval <= 0
          \/ "max_iter" \in DOMAIN options /\ options.max_iter <= 0
          \/ "radius_init" \in DOMAIN options /\ options.radius_init <= 0
          \/ "radius_final" \in DOMAIN options /\ options.radius_final < 0
          \/ /\ "radius_init" \in DOMAIN options
             /\ "radius_final" \in DOMAIN options
             /\ options.radius_init < options.radius_final
          \/ /\ "npt" \in DOMAIN options
             /\ (options.npt <= 0
                   \/ options.npt > ((pb.n + 1) * (pb.n + 2)) \div 2)
     /\ (pc = "sampling" /\ options.max_eval <= options.npt) =>
          /\ pc' \in {"sampling", "done"}
          /\ n_eval' <= options.max_eval
          /\ pc' = "done" => (result'.nit = 0 /\ result'.nfev = n_eval)]_vars

\* C11 witness: a run with max_eval <= npt has sampled max_eval points and
\* returned.
C11_Witness ==
  /\ pc = "done"
  /\ options.max_eval <= options.npt
  /\ n_eval = options.max_eval
  /\ result.nit = 0 /\ result.nfev = options.max_eval

\* C12: once the options are accepted, radius_final <= radius_init,
\* whichever of the two the caller gave; when the main loop starts this
\* still holds, after the radii were capped to 0.5 min(xu - xl), and the
\* resolution is radius_init.
C12_RadiusOrder ==
  /\ pc \in AcceptedPcs => options.radius_final <= options.radius_init
  /\ pc = "loop" =>
       /\ options.radius_final <= options.radius_init
       /\ options.radius_init <= pb.max_radius
       /\ resolution = options.radius_init

\* C12 witness: the main loop starts with both radii capped by the bounds.
C12_Witness ==
  /\ pc = "loop"
  /\ options.radius_init = pb.max_radius
  /\ options.radius_final = pb.max_radius

\* The twelve option names.
OptionNames ==
  {"debug", "max_eval", "max_iter", "npt", "radius_init", "radius_final",
   "target", "feasibility_tol", "verbose", "filter_size", "store_history",
   "history_size"}

\* C13 (as claimed): once the options are accepted, one warning was issued
\* for each key that is not an option name and none for a key that is one.
C13_WarnUnknownOnly ==
  pc \in AcceptedPcs =>
    warnings = {key \in DOMAIN options : key \notin OptionNames}

\* C14 (as claimed): every option name that minimize and
\* _set_default_options read is a member of Options and has an entry in
\* DEFAULT_OPTIONS: resolving the names raises no lookup error.
C14_NamesResolve ==
  /\ pc # "AttributeError"
  /\ pc # "KeyError"

\* C19 (as claimed): no interpolation set is created and no function is
\* evaluated unless n + 1 <= npt <= (n+1)(n+2)/2.
C19_NptRange ==
  (pc \in AcceptedPcs /\ (radius # None \/ n_eval > 0)) =>
    /\ pb.n + 1 <= options.npt
    /\ options.npt <= ((pb.n + 1) * (pb.n + 2)) \div 2

\* A step of update_interpolation, and a step of shift_x_base.
UpdateStep == call'.op = "update" /\ n_upd' = n_upd + 1
ShiftStep == call'.op = "shift" /\ n_upd' = n_upd

\* C17 (as claimed): after update_interpolation every model that shares
\* the interpolation set has been updated for the new column, whatever
\* flag the update of a model returns.
C17_AllModelsUpdated ==
  call.op = "update" => \A i \in DOMAIN model_upd : model_upd[i] = n_upd

C20_ShiftKeepsPoints ==
  [][ShiftStep =>
       /\ \A k \in 0..(options.npt - 1) :
            [i \in DOMAIN x_base |-> x_base'[i] + xpt'[i][k]]
              = [i \in DOMAIN x_base |-> x_base[i] + xpt[i][k]]
       /\ x_base' = call'.x
       /\ vals' = vals]_vars

\* C20 witness: the base point was moved to a point that an update had
\* put in the interpolation set.
C20_Witness ==
  /\ call.op = "shift"
  /\ n_upd = 1
  /\ x_base = call.x
  /\ \E k \in 0..(options.npt - 1) :
       /\ vals[k] \in NewRows
       /\ \A i \in DOMAIN xpt : xpt[i][k] = 0

\* Points at which the models are compared before and after a shift: the
\* interpolation points and two points away from them.
C21_Points ==
  {point(x_base, xpt, k) : k \in DOMAIN xpt[1]}
  \cup {[i \in DOMAIN x_base |-> x_base[i] + d * i] : d \in {-3, 1}}

\* C21: a shift of the base point leaves every quadratic model unchanged as
\* a function: its value at every point, computed with the coefficients,
\* the base point and the interpolation points after shift_x_base, equals
\* the value computed with those before, and its Hessian is the same.
C21_ShiftKeepsModels ==
  [][ShiftStep =>
       \A i \in DOMAIN quad :
         /\ \A x \in C21_Points :
              Quadratic_call(quad'[i], x_base', xpt', x)
                = Quadratic_call(quad[i], x_base, xpt, x)
         /\ Quadratic_hess(quad'[i], xpt') = Quadratic_hess(quad[i], xpt)]_vars

\* A model with implicit second-order coefficients has been shifted, and
\* its explicit Hessian has changed.
C21_Witness ==
  /\ call.op = "shift"
  /\ quad # <<>>
  /\ \E k \in DOMAIN quad[1].i_hess : quad[1].i_hess[k] # 0
  /\ \E i, j \in DOMAIN x_base : quad[1].e_hess[i][j] \notin {0, 2, i + j}

\* Steps of the main loop, as recorded: the three branches of an iteration,
\* and the geometry step.
ShortBranch == trace'.branch = "short" /\ trace'.iter = n_iter + 1
RestartBranch == trace'.branch = "restart" /\ trace'.iter = n_iter + 1
ClassicalEnd == trace'.branch = "classical" /\ trace.branch = "trial"
GeometryDone == trace'.branch = "geometry" /\ pc = "geometry"

\* C22: in the short-step branch both counters are zeroed if the radius
\* saved before the step exceeds the resolution, otherwise both are
\* incremented and very_short_steps is then zeroed if s_norm > 0.1 rho;
\* a reduction of the resolution is requested exactly when short_steps >= 5
\* or very_short_steps >= 3 after this update, and then both counters are
\* zeroed and no geometry step is requested. At every iteration boundary
\* 0 <= very_short_steps <= short_steps <= 4 and very_short_steps <= 2.
C22_ShortStepCounters ==
  /\ [](pc = "loop" =>
          /\ 0 <= n_very_short_steps /\ n_very_short_steps <= n_short_steps
          /\ n_short_steps <= 4 /\ n_very_short_steps <= 2)
  /\ [][ShortBranch =>
          LET s_norm == trace'.s_norm
              short == IF radius_save' > resolution THEN 0
                       ELSE n_short_steps + 1
              very == IF radius_save' > resolution THEN 0
                      ELSE IF 10 * s_norm > resolution THEN 0
                      ELSE n_very_short_steps + 1
          IN /\ 2 * s_norm <= resolution
             /\ radius_save' = radius
             /\ reduce_resolution' <=> (short >= 5 \/ very >= 3)
             /\ reduce_resolution' =>
                  /\ n_short_steps' = 0 /\ n_very_short_steps' = 0
                  /\ ~improve_geometry'
             /\ ~reduce_resolution' =>
                  /\ n_short_steps' = short
                  /\ n_very_short_steps' = very]_vars

\* A fifth short step in a row, not a very short one, has requested a
\* reduction of the resolution.
C22_Witness ==
  /\ pc = "reduce" /\ trace.branch = "short" /\ reduce_resolution
  /\ 10 * trace.s_norm > resolution
  /\ n_iter = 5

\* C23: at the end of a classical iteration in which the best point did not
\* move, improve_geometry = ill_conditioned or (ratio <= 0.1 and
\* dist_new > max(radius, 2 resolution)), with the radius set by
\* update_radius; an ill-conditioned update does not end the run, requests
\* no reduction of the resolution, and the geometry step is the next step
\* of that same iteration, whatever ratio and dist_new are.
C23_IllConditionedImproves ==
  /\ [][ClassicalEnd =>
          /\ improve_geometry' =
               (trace'.ill
                \/ (trace'.ratio <= 10
                    /\ trace'.dist_new > Max2(radius', 2 * resolution')))
          /\ trace'.ill =>
               pc' = "reduce" /\ improve_geometry' /\ ~reduce_resolution']_vars
  /\ [](trace.branch = "classical" /\ trace.ill =>
          /\ pc \in {"reduce", "geometry"}
          /\ improve_geometry /\ ~reduce_resolution
          /\ trace.iter = n_iter)
  /\ [][trace.branch = "classical" /\ trace.ill /\ pc = "geometry" =>
          GeometryDone /\ trace'.iter = n_iter /\ n_iter' = n_iter]_vars

\* An ill-conditioned update with a high ratio and a small distance is
\* followed by the geometry step.
C23_Witness ==
  /\ pc = "geometry" /\ trace.branch = "classical" /\ trace.ill
  /\ trace.ratio > 10
  /\ trace.dist_new <= Max2(radius, 2 * resolution)
  /\ improve_geometry

\* C24: reduce_resolution and improve_geometry are never both true; an
\* iteration that lowers the resolution, or that ends the run with
\* RADIUS_SUCCESS, performs no geometry step, and the iteration of a
\* geometry step does not lower the resolution.
C24_ReduceExcludesGeometry ==
  /\ [](~(reduce_resolution /\ improve_geometry))
  /\ [](penalty_decreased => ~improve_geometry)
  /\ [](result.status = RADIUS_SUCCESS => ~improve_geometry)
  /\ [][resolution' < resolution =>
          penalty_decreased' /\ reduce_resolution /\ ~improve_geometry']_vars
  /\ [][pc = "geometry" /\ improve_geometry =>
          ~penalty_decreased /\ resolution' = resolution]_vars

\* A classical iteration ends with a low ratio and a radius that did not
\* exceed the resolution, and requests a geometry step.
C24_Witness ==
  /\ pc = "reduce" /\ trace.branch = "classical"
  /\ trace.ratio <= 10 /\ radius_save <= resolution
  /\ improve_geometry /\ ~reduce_resolution

\* What an iteration leaves alone when it evaluates nothing and updates
\* nothing: the evaluations, the interpolation set, the radius, the
\* resolution and the counters.
C25_Frame ==
  UNCHANGED <<n_eval, modelVars, radius, resolution, k_new, n_short_steps,
              n_very_short_steps, n_alt_models, success>>

C26_GeometryIndexFresh ==
  /\ [][(ShortBranch \/ ClassicalEnd) /\ improve_geometry' =>
          /\ trace'.k \in 0..(options.npt - 1)
          /\ k_new' = trace'.k
          /\ trace'.iter = n_iter']_vars
  /\ [](improve_geometry /\ pc \in {"reduce", "geometry"} =>
          /\ trace.branch \in {"short", "classical"}
          /\ trace.iter = n_iter
          /\ k_new = trace.k /\ k_new # None)
  /\ [][pc = "geometry" /\ improve_geometry =>
          /\ GeometryDone
          /\ trace'.k = trace.k /\ trace'.iter = trace.iter
          /\ IF n_eval >= options.max_eval
               THEN /\ n_eval' = n_eval
                    /\ result'.status = MAX_EVAL_WARNING
               ELSE /\ n_eval' = n_eval + 1
                    /\ IF target' THEN result'.status = TARGET_SUCCESS
                       ELSE pc' = "loop" /\ result' = NoResult]_vars
  /\ [](trace.branch = "geometry" => pc \in {"loop", "done"})

\* A geometry step has been made in a later iteration, after evaluations
\* of earlier iterations, for the index returned in that iteration.
C26_Witness ==
  /\ pc = "loop" /\ trace.branch = "geometry"
  /\ n_iter >= 2 /\ n_eval > options.npt + 1
  /\ trace.k = k_new

\* C27: alt_models changes only at the end of a classical iteration in
\* which the radius set by update_radius does not exceed the resolution:
\* it is zeroed if ratio >= 0.01, otherwise incremented, then zeroed if
\* norm(grad) < 10 norm(grad_alt); reset_models is called exactly when the
\* counter then is >= 3, and the counter is zeroed. Hence
\* 0 <= alt_models <= 2 at every iteration boundary, and reset_models is
\* not called when the radius exceeds the resolution or ratio >= 0.01.
C27_AltModelsCounter ==
  /\ [](pc = "loop" => 0 <= n_alt_models /\ n_alt_models <= 2)
  /\ [][n_alt_models' # n_alt_models =>
          ClassicalEnd /\ radius' <= resolution]_vars
  /\ [][ClassicalEnd =>
          IF radius' <= resolution
            THEN IF trace'.ratio >= 1
                   THEN n_alt_models' = 0 /\ ~trace'.reset
                   ELSE LET n == IF trace'.small_grad THEN 0
                                 ELSE n_alt_models + 1
                        IN /\ trace'.reset = (n >= 3)
                           /\ n_alt_models' = IF n >= 3 THEN 0 ELSE n
            ELSE n_alt_models' = n_alt_models /\ ~trace'.reset]_vars

\* reset_models has been called, in the third classical iteration.
C27_Witness ==
  /\ pc = "reduce" /\ trace.branch = "classical" /\ trace.reset
  /\ n_alt_models = 0

\* C28: for n >= 2 and a column k with 2n+1 <= k <= npt-1, with
\* k1 = (k-1) mod n and k2 = (k1 + floor((k-n-1)/n)) mod n, counted from
\* 0: 0 <= k1, k2 < n, k1 # k2, and column k of the initial xpt has exactly
\* two nonzero entries, those of columns k1+1 and k2+1 on the coordinates
\* k1 and k2.
C28_PairColumns ==
  pc = "built" =>
    \A k \in (2 * pb.n + 1)..(options.npt - 1) :
      LET n == pb.n
          k1 == (k - 1) % n
          k2 == (k1 + ((k - n - 1) \div n)) % n
      IN /\ n >= 2
         /\ 0 <= k1 /\ k1 < n /\ 0 <= k2 /\ k2 < n /\ k1 # k2
         /\ xpt[k1 + 1][k] = xpt[k1 + 1][k1 + 1] /\ xpt[k1 + 1][k] # 0
         /\ xpt[k2 + 1][k] = xpt[k2 + 1][k2 + 1] /\ xpt[k2 + 1][k] # 0
         /\ \A i \in 1..n : i \notin {k1 + 1, k2 + 1} => xpt[i][k] = 0

\* The greatest number of points in dimension 3: the last column pairs
\* the last coordinate with the first one.
C28_Witness ==
  /\ pc = "built" /\ pb.n = 3 /\ options.npt = 10
  /\ xpt[3][9] # 0 /\ xpt[1][9] # 0 /\ xpt[2][9] = 0

\* C29: for bounds with xl < xu on each coordinate, every x0 and every
\* accepted radius_init, the initial interpolation points x_base + xpt[:, k]
\* lie within the bounds, after the snapping of x_base and the capping of
\* radius_init to 0.5 min(xu - xl).
C29_PointsWithinBounds ==
  pc = "built" =>
    \A k \in 0..(options.npt - 1) : \A i \in 1..pb.n :
      /\ call.xl[i] <= point(x_base, xpt, k)[i]
      /\ point(x_base, xpt, k)[i] <= call.xu[i]

\* A starting point outside the bounds and a radius that was capped, with
\* 2n+1 points or more: both bounds are reached by interpolation points.
C29_Witness ==
  /\ pc = "built" /\ options.npt >= 2 * pb.n + 1
  /\ options.radius_init = pb.max_radius
  /\ \E i \in 1..pb.n :
       /\ call.x0[i] > call.xu[i]
       /\ \E k \in 0..(options.npt - 1) :
            point(x_base, xpt, k)[i] = call.xl[i]

\* C30: for n >= 1 and n+1 <= npt <= (n+1)(n+2)/2, the initial
\* interpolation points are pairwise distinct, whatever coordinates of
\* x_base were snapped to a bound.
C30_PointsDistinct ==
  pc = "built" =>
    \A j, k \in 0..(options.npt - 1) :
      j # k => Col(xpt, j) # Col(xpt, k)

\* The greatest number of points, with one coordinate snapped to its lower
\* bound and another to its upper bound.
C30_Witness ==
  /\ pc = "built" /\ pb.n >= 2
  /\ options.npt = ((pb.n + 1) * (pb.n + 2)) \div 2
  /\ \E i, j \in 1..pb.n :
       /\ x_base[i] = call.xl[i] /\ x_base[j] = call.xu[j]


====
